---- MODULE Spec2Model ----
(***************************************************************************)
(* A model of src/src/GNContext.cpp, the node binding of the getdns        *)
(* resolution engine: construction and option dispatch of a Context, the   *)
(* issuing calls (lookup, getAddress, getHostname, getService), cancel,    *)
(* destroy, the completion bridge GNContext::Callback and finalization.    *)
(*                                                                         *)
(* NanThrowError / NanThrowTypeError only schedule a host exception; they  *)
(* do not leave the C++ function (New itself writes NanReturnUndefined()   *)
(* after them at lines 374-375 and 388-389).  A handler therefore runs on  *)
(* after a throw until it reaches a return, and the host sees the          *)
(* exception when the handler returns.                                     *)
(*                                                                         *)
(* The engine (getdns) is the environment: it accepts or rejects a request *)
(* and later fires the completion function once for each accepted          *)
(* transaction, on the host's thread, outside any call of the binding.     *)
(***************************************************************************)
EXTENDS Integers, Sequences, FiniteSets, TLC

(* ------------------------------ bounds --------------------------------- *)
\* transactions the engine accepts in one run
MaxTrans == 2
\* keys of the options object given to the constructor
MaxOpts == 2

(* ------------------------- program constants --------------------------- *)
GETDNS_RETURN_GOOD == 0
GETDNS_RETURN_GENERIC_ERROR == 1
GETDNS_RETURN_BAD_DOMAIN_NAME == 300
GETDNS_RETURN_INVALID_PARAMETER == 311
GETDNS_RESOLUTION_STUB == 520
GETDNS_RESOLUTION_RECURSING == 521
GETDNS_EXTENSION_TRUE == 1000
GETDNS_EXTENSION_FALSE == 1001
GETDNS_CALLBACK_COMPLETE == 700
GETDNS_CALLBACK_CANCEL == 701
GETDNS_CALLBACK_TIMEOUT == 702
\* length of a transaction id buffer
TransIdLen == 8

(* ---------------------------- host values ------------------------------ *)
\* A host (v8) value: its type tag t, a number n, a string s, elements a.
Val(t, n, s, a) == [t |-> t, n |-> n, s |-> s, a |-> a]
Undef == Val("undef", 0, "", <<>>)
Bool(b) == Val("bool", IF b THEN 1 ELSE 0, "", <<>>)
Num(n) == Val("num", n, "", <<>>)
Str(s) == Val("str", 0, s, <<>>)
Arr(a) == Val("arr", 0, "", a)
Obj == Val("obj", 0, "", <<>>)
\* a dictionary object: a is the sequence of its own [name, value] properties
Dict(a) == Val("dict", 0, "", a)
\* a host function; n tells the functions apart
Fn(n) == Val("fn", n, "", <<>>)
\* a node Buffer holding the bytes a
Buf(a) == Val("buf", 0, "", a)

IsNumber(v) == v.t = "num"
\* mutant: Value::BooleanValue, the truthiness of the value
IsTrue_BooleanValue(v) ==
  CASE v.t = "bool" -> v.n = 1
    [] v.t = "num" -> v.n # 0
    [] v.t = "str" -> v.s # ""
    [] v.t = "undef" -> FALSE
    [] OTHER -> TRUE
IsTrue(v) == v.t = "bool" /\ v.n = 1
IsArray(v) == v.t = "arr"
IsFunction(v) == v.t = "fn"
\* v8: arrays and functions are objects too
IsObject(v) == v.t \in {"obj", "dict", "arr", "fn", "buf"}
\* GNUtil::isDictionaryObject
isDictionaryObject(v) == v.t = "dict"
\* ToUint32 of the integer n: n modulo 2^32, held as its two 16-bit halves
\* (2^32 itself is beyond the integers of the checker)
ToUint32(n) == [hi |-> (n \div 65536) % 65536, lo |-> n % 65536]
\* Value::Uint32Value of a number (the code asks IsNumber first)
Uint32Value(v) == IF v.t = "num" THEN ToUint32(v.n) ELSE ToUint32(0)
\* a uint32_t used at its full width; such values stay below 2^31 here
uint32_t(u) == u.hi * 65536 + u.lo
\* mutant: the value is clamped to the range of the type
uint8_t_Clamped(u) == IF u.hi > 0 \/ u.lo > 255 THEN 255 ELSE u.lo
\* the casts (uint8_t) and (uint16_t) of a uint32_t
uint8_t(u) == u.lo % 256
uint16_t(u) == u.lo
\* Value::ToString, as far as an address parse can tell the texts apart
ToStr(v) ==
  CASE v.t = "str" -> v.s
    [] v.t = "undef" -> "undefined"
    [] v.t = "bool" -> (IF v.n = 1 THEN "true" ELSE "false")
    [] v.t = "num" -> "<number>"
    [] v.t = "fn" -> "function () {}"
    [] v.t = "arr" -> "<elements>"
    [] OTHER -> "[object Object]"

(* ------------------------- getdns_util_create_ip ----------------------- *)
\* inet_pton(AF_INET, s): the 4 address bytes, or <<>> when s is no IPv4 literal
inet_pton4(s) ==
  CASE s = "1.2.3.4" -> <<1, 2, 3, 4>>
    [] s = "8.8.8.8" -> <<8, 8, 8, 8>>
    [] OTHER -> <<>>
\* inet_pton(AF_INET6, s): the 16 address bytes, or <<>>
inet_pton6(s) ==
  CASE s = "::1" -> <<0, 0, 0, 0, 0, 0, 0, 0, 0, 0, 0, 0, 0, 0, 0, 1>>
    [] OTHER -> <<>>

NoPort == -1
\* the NULL dictionary
NullDict == [address_type |-> "", address_data |-> <<>>, port |-> NoPort]

\* mutant: a dictionary is made without parsing the address
getdns_util_create_ip_NoParse(ip) ==
  [address_type |-> "IPv4", address_data |-> <<0, 0, 0, 0>>, port |-> NoPort]
getdns_util_create_ip(ip) ==
  LET b4 == inet_pton4(ip)
      b6 == inet_pton6(ip)
      addrSize == IF b4 # <<>> THEN 4 ELSE IF b6 # <<>> THEN 16 ELSE 0
  IN IF addrSize = 0 THEN NullDict
     ELSE [address_type |-> IF addrSize = 4 THEN "IPv4" ELSE "IPv6",
           address_data |-> IF addrSize = 4 THEN b4 ELSE b6,
           port |-> NoPort]

(* ---------------------------- engine calls ----------------------------- *)
\* One call of the engine made by the binding: the function f, the context
\* handle h it is given, a numeric argument n and a list argument l.
ECall(f, h, n, l) == [f |-> f, h |-> h, n |-> n, l |-> l]
\* a host exception: none, or its type and message
NoExc == [type |-> "none", msg |-> ""]
Exc(type, msg) == [type |-> type, msg |-> msg]

(* ------------------------------ setters -------------------------------- *)
\* The engine context as the binding's setters change it.  A setter given
\* the NULL handle (or a dangling one) changes nothing.
EngineDefault ==
  [alive |-> TRUE, destroys |-> 0, upstreams |-> <<>>,
   resolution |-> GETDNS_RESOLUTION_RECURSING, timeout |-> 0]
\* One allocation or release of an engine structure by the binding: act is
\* "create" or "destroy", what the variable that holds the structure, i the
\* array element it was made for (0: none).
MEv(act, what, i) == [act |-> act, what |-> what, i |-> i]
\* what a setter hands back: the engine calls it made, the exception it
\* scheduled, the engine context afterwards, the structures it allocated
\* and released
SetRes(eng, exc, E) == [eng |-> eng, exc |-> exc, E |-> E, mem |-> <<>>]

setTransport(h, opt, E) ==
  IF IsNumber(opt)
  THEN SetRes(<<ECall("set_dns_transport", h, uint32_t(Uint32Value(opt)), <<>>)>>, NoExc, E)
  ELSE SetRes(<<>>, NoExc, E)

setStub(h, opt, E) ==
  LET t == IF IsTrue(opt) THEN GETDNS_RESOLUTION_STUB
           ELSE GETDNS_RESOLUTION_RECURSING
  IN SetRes(<<ECall("set_resolution_type", h, t, <<>>)>>, NoExc,
            IF h = "ctx" THEN [E EXCEPT !.resolution = t] ELSE E)

setResolutionType(h, opt, E) ==
  IF IsNumber(opt)
  THEN LET num == uint32_t(Uint32Value(opt))
       IN SetRes(<<ECall("set_resolution_type", h, num, <<>>)>>, NoExc,
                 IF h = "ctx" /\ num \in {GETDNS_RESOLUTION_STUB,
                                          GETDNS_RESOLUTION_RECURSING}
                 THEN [E EXCEPT !.resolution = num] ELSE E)
  ELSE SetRes(<<>>, NoExc, E)

\* One element of the upstream array (lines 138-156): its endpoint
\* dictionary, NullDict when the address does not parse.
UpstreamDict(ipOrTuple) ==
  IF IsArray(ipOrTuple)
  THEN IF Len(ipOrTuple.a) > 0
       THEN LET ipDict == getdns_util_create_ip(ToStr(ipOrTuple.a[1]))
            IN IF ipDict # NullDict /\ Len(ipOrTuple.a) > 1
                  /\ IsNumber(ipOrTuple.a[2])
               THEN [ipDict EXCEPT !.port = uint32_t(Uint32Value(ipOrTuple.a[2]))]
               ELSE ipDict
       ELSE NullDict
  ELSE getdns_util_create_ip(ToStr(ipOrTuple))

\* The for loop of setUpstreams (lines 137-166) from element i on: a valid
\* element is appended to the list, an invalid one schedules a type error,
\* and the loop goes on to the next element either way.
RECURSIVE UpstreamsLoop(_, _, _, _, _)
UpstreamsLoop(values, i, upstreams, exc, mem) ==
  IF i > Len(values) THEN [list |-> upstreams, exc |-> exc, mem |-> mem]
  ELSE LET ipDict == UpstreamDict(values[i])
       IN IF ipDict # NullDict
          THEN UpstreamsLoop(values, i + 1, Append(upstreams, ipDict), exc,
                             mem \o <<MEv("create", "ipDict", i),
                                      MEv("destroy", "ipDict", i)>>)
          ELSE UpstreamsLoop(values, i + 1, upstreams,
                             Exc("TypeError", "Upstream value is invalid: "),
                             mem)

\* accept: whether the engine takes the list it is given
setUpstreams(h, opt, E, accept) ==
  IF IsArray(opt)
  THEN LET built == UpstreamsLoop(opt.a, 1, <<>>, NoExc,
                                  <<MEv("create", "upstreams", 0)>>)
           good == h = "ctx" /\ accept
       IN [SetRes(<<ECall("set_upstream_recursive_servers", h, 0, built.list)>>,
                  IF good THEN built.exc
                  ELSE Exc("TypeError", "Failed to set upstreams."),
                  IF good THEN [E EXCEPT !.upstreams = built.list] ELSE E)
             EXCEPT !.mem = built.mem \o <<MEv("destroy", "upstreams", 0)>>]
  ELSE SetRes(<<>>, NoExc, E)

setTimeout(h, opt, E) ==
  IF IsNumber(opt)
  THEN LET num == uint32_t(Uint32Value(opt))
       IN SetRes(<<ECall("set_timeout", h, num, <<>>)>>, NoExc,
                 IF h = "ctx" THEN [E EXCEPT !.timeout = num] ELSE E)
  ELSE SetRes(<<>>, NoExc, E)

setUseThreads(h, opt, E) ==
  SetRes(<<ECall("set_use_threads", h, IF IsTrue(opt) THEN 1 ELSE 0, <<>>)>>,
         NoExc, E)

setReturnDnssecStatus(h, opt, E) ==
  SetRes(<<ECall("set_return_dnssec_status", h,
                 IF IsTrue(opt) THEN GETDNS_EXTENSION_TRUE
                 ELSE GETDNS_EXTENSION_FALSE, <<>>)>>, NoExc, E)

\* the three tables, in the order of their entries
SETTERS ==
  <<"stub", "upstreams", "upstream_recursive_servers", "timeout",
    "use_threads", "return_dnssec_status", "dns_transport", "resolution_type">>
UINT8_OPTION_SETTERS == <<"edns_extended_rcode", "edns_version", "edns_do_bit">>
UINT16_OPTION_SETTERS ==
  <<"limit_outstanding_queries", "edns_maximum_udp_payloadSize">>

\* mutant: the result of strcmp is not compared with 0
InTable_NoCompare(name, table) == \E s \in 1..Len(table) : table[s] # name
\* the loops over a table, lines 250, 259 and 266: strcmp(opt_name, name) == 0
InTable(name, table) == \E s \in 1..Len(table) : table[s] = name

\* SETTERS[s].setter(ctx->context_, value)
CallSetter(name, h, value, E, accept) ==
  CASE name = "stub" -> setStub(h, value, E)
    [] name \in {"upstreams", "upstream_recursive_servers"} ->
         setUpstreams(h, value, E, accept)
    [] name = "timeout" -> setTimeout(h, value, E)
    [] name = "use_threads" -> setUseThreads(h, value, E)
    [] name = "return_dnssec_status" -> setReturnDnssecStatus(h, value, E)
    [] name = "dns_transport" -> setTransport(h, value, E)
    [] OTHER -> setResolutionType(h, value, E)

\* NAN_SETTER(GNContext::SetContextValue), lines 242-275
SetContextValue(name, value, h, E, accept) ==
  IF InTable(name, SETTERS) THEN CallSetter(name, h, value, E, accept)
  ELSE IF ~IsNumber(value) THEN SetRes(<<>>, NoExc, E)
  ELSE IF InTable(name, UINT8_OPTION_SETTERS)
  THEN SetRes(<<ECall(name, h, uint8_t(Uint32Value(value)), <<>>)>>, NoExc, E)
  ELSE IF InTable(name, UINT16_OPTION_SETTERS)
  THEN SetRes(<<ECall(name, h, uint16_t(Uint32Value(value)), <<>>)>>, NoExc, E)
  ELSE SetRes(<<>>, NoExc, E)

\* the names InitProperties (lines 277-292) installs an accessor for
HasAccessor(name) ==
  InTable(name, SETTERS) \/ InTable(name, UINT8_OPTION_SETTERS)
    \/ InTable(name, UINT16_OPTION_SETTERS)

\* mutant: the loop goes on after a setter raised
RECURSIVE ApplyLoop_GoesOn(_, _, _, _, _, _, _)
ApplyLoop_GoesOn(opts, accepts, i, h, E, eng, mem) ==
  IF i > Len(opts) THEN [SetRes(eng, NoExc, E) EXCEPT !.mem = mem]
  ELSE LET r == IF HasAccessor(opts[i].name)
                THEN SetContextValue(opts[i].name, opts[i].value, h, E,
                                     accepts[i])
                ELSE SetRes(<<>>, NoExc, E)
           rest == ApplyLoop_GoesOn(opts, accepts, i + 1, h, r.E, eng \o r.eng,
                                    mem \o r.mem)
       IN IF r.exc # NoExc
          THEN [SetRes(rest.eng, r.exc, rest.E) EXCEPT !.mem = rest.mem]
          ELSE rest
\* The loop of ApplyOptions (lines 308-316) from key i on.  opts is the
\* options object as the sequence of its own keys and values, accepts says
\* for each key whether the engine takes an upstream list there.  The loop
\* returns at the first key whose setter raised.
RECURSIVE ApplyLoop(_, _, _, _, _, _, _)
ApplyLoop(opts, accepts, i, h, E, eng, mem) ==
  IF i > Len(opts) THEN [SetRes(eng, NoExc, E) EXCEPT !.mem = mem]
  ELSE LET r == IF HasAccessor(opts[i].name)
                THEN SetContextValue(opts[i].name, opts[i].value, h, E,
                                     accepts[i])
                ELSE SetRes(<<>>, NoExc, E)
       IN IF r.exc # NoExc
          THEN [SetRes(eng \o r.eng, r.exc, r.E) EXCEPT !.mem = mem \o r.mem]
          ELSE ApplyLoop(opts, accepts, i + 1, h, r.E, eng \o r.eng,
                         mem \o r.mem)

\* GNContext::ApplyOptions
ApplyOptions(optsV, accepts, h, E) ==
  IF ~isDictionaryObject(optsV) THEN SetRes(<<>>, NoExc, E)
  ELSE ApplyLoop(optsV.a, accepts, 1, h, E, <<>>, <<>>)

(* --------------------------- callback values --------------------------- *)
\* An argument handed to a host callback, or a value a method returns:
\* null/undefined/true/false/this, an error object {msg, code}, a converted
\* response, or a byte buffer.
HArg(k, msg, code, bytes) == [k |-> k, msg |-> msg, code |-> code, bytes |-> bytes]
NanNull == HArg("null", "", 0, <<>>)
Undefined == HArg("undefined", "", 0, <<>>)
NanTrue == HArg("true", "", 0, <<>>)
NanFalse == HArg("false", "", 0, <<>>)
This == HArg("this", "", 0, <<>>)
makeErrorObj(msg, code) == HArg("error", msg, code, <<>>)
\* GNUtil::convertToJSObj of the engine's response
convertToJSObj == HArg("result", "", 0, <<>>)

\* the n bytes of v in memory order (least significant first)
RECURSIVE BytesOf(_, _)
BytesOf(v, n) == IF n = 0 THEN <<>> ELSE <<v % 256>> \o BytesOf(v \div 256, n - 1)
\* GNUtil::convertToBuffer(&transId, len)
convertToBuffer(transId, len) == HArg("buffer", "", 0, BytesOf(transId, len))
\* mutant: only the first byte is copied
memcpy_OneByte(bytes) == IF bytes = <<>> THEN 0 ELSE bytes[1]
\* memcpy(&transId, data, 8): the integer the bytes spell
RECURSIVE memcpy(_)
memcpy(bytes) ==
  IF bytes = <<>> THEN 0 ELSE bytes[1] + 256 * memcpy(Tail(bytes))

\* the id the engine gives its k-th accepted transaction
EngineId(k) == 257 * k

\* One invocation of a host function: the function and its arguments
Invocation(fn, argv) == [fn |-> fn, argv |-> argv]
\* mutant: the host function is called twice
CallHost_Twice(cb, argv) ==
  IF IsFunction(cb) THEN <<Invocation(cb, argv), Invocation(cb, argv)>> ELSE <<>>
\* Function::Call / NanMakeCallback on value cb: a function runs (and is
\* recorded); anything else is not callable and nothing runs
CallHost(cb, argv) == IF IsFunction(cb) THEN <<Invocation(cb, argv)>> ELSE <<>>

(* ------------------------------- state --------------------------------- *)
VARIABLES
  obj,       \* the GNContext object: "none", "live", "failed", "collected"
  context_,  \* GNContext::context_: "NULL" or "ctx"
  refs,      \* ObjectWrap::refs_ of the GNContext object
  engine,    \* the engine context behind the handle "ctx"
  trans,     \* slot k: the k-th transaction the engine accepted
  issued,    \* how many transactions the engine has accepted
  last,      \* what the latest operation did
  halted     \* the process has ended (abort, or exit on a fatal exception)

vars == <<obj, context_, refs, engine, trans, issued, last, halted>>

\* A transaction slot.  st: "free", "pending" (CallbackData live, the engine
\* holds it as userarg) or "done"; cb: CallbackData::callback; idret: the
\* issuing call handed the id to the host; cancelled: the engine was told to
\* cancel it; calls: the invocations of the host callback by the bridge;
\* frees: deletes of the CallbackData.
FreeSlot ==
  [st |-> "free", cb |-> Undef, idret |-> FALSE, cancelled |-> FALSE,
   calls |-> 0, frees |-> 0]

\* What one operation did: its arguments, the exception the host sees when
\* it returns, its return value, the host callbacks it invoked itself, the
\* engine calls it made, the CallbackData it made ("none", "kept", "freed"),
\* its Ref()/Unref() calls (for a step of the completion bridge the one
\* argument recorded is the completion kind); failAt: for New, the number of engine calls made
\* when the first failure was detected (0: none); active: context_ was a
\* live handle when the operation began; r: the status of the issuing call;
\* mem: the engine structures the operation allocated and released, in order.
OpRec(op, args, exc, ret, cbs, eng, data, refd, unrefd, failAt) ==
  [op |-> op, args |-> args, exc |-> exc, ret |-> ret, cbs |-> cbs,
   eng |-> eng, data |-> data, refd |-> refd, unrefd |-> unrefd,
   failAt |-> failAt, active |-> context_ = "ctx",
   r |-> GETDNS_RETURN_GOOD, mem |-> <<>>]

NoOp == [op |-> "none", args |-> <<>>, exc |-> NoExc, ret |-> Undefined,
         cbs |-> <<>>, eng |-> <<>>, data |-> "none", refd |-> 0,
         unrefd |-> 0, failAt |-> 0, active |-> FALSE,
         r |-> GETDNS_RETURN_GOOD, mem |-> <<>>]

Init ==
  /\ obj = "none"
  /\ context_ = "NULL"
  /\ refs = 0
  /\ engine = [EngineDefault EXCEPT !.alive = FALSE]
  /\ trans = [k \in 1..MaxTrans |-> FreeSlot]
  /\ issued = 0
  /\ last = NoOp
  /\ halted = FALSE

(* ---------------------------- construction ----------------------------- *)
\* getdns_context_destroy(h) as the engine context sees it
EngineDestroy(h, E) ==
  IF h = "ctx" THEN [E EXCEPT !.alive = FALSE, !.destroys = @ + 1] ELSE E

\* the option values and objects the host passes
OptPairs ==
  { [name |-> "stub", value |-> Bool(TRUE)],
    [name |-> "timeout", value |-> Num(500)],
    [name |-> "upstreams", value |-> Arr(<<Str("8.8.8.8")>>)],
    [name |-> "upstreams",
     value |-> Arr(<<Str("1.2.3.4"), Str("not-an-ip")>>)],
    [name |-> "upstream_recursive_servers",
     value |-> Arr(<<Arr(<<Str("::1"), Num(53)>>)>>)],
    [name |-> "edns_version", value |-> Num(300)],
    [name |-> "color", value |-> Str("blue")] }
OptionObjects ==
  { Dict(a) : a \in { q \in UNION { [1..m -> OptPairs] : m \in 0..MaxOpts } :
                        \A i, j \in DOMAIN q : q[i].name = q[j].name => i = j } }
    \cup {Undef, Str("opts")}

\* GNContext::New, construct call.  created: getdns_context_create gave a
\* context; attached: attachContextToNode succeeded; accepts: whether the
\* engine takes the upstream list given for the i-th key.  After a failed
\* create the object is deleted and the function runs on (line 366 has no
\* return): stale is what ctx->context_ of the deleted object then reads as
\* ("NULL" or "wild"), abort whether the second delete ends the process.
New(optsV, accepts, created, attached, stale, abort) ==
  /\ obj = "none" /\ ~halted
  /\ LET h == IF created THEN "ctx" ELSE stale
         E0 == IF created THEN EngineDefault ELSE engine
         create == <<ECall("create", "NULL", 0, <<>>)>>
         \* delete ctx at line 365: ~GNContext destroys the NULL handle
         del1 == IF created THEN <<>> ELSE <<ECall("destroy", "NULL", 0, <<>>)>>
         exc1 == IF created THEN NoExc
                 ELSE Exc("Error", "Unable to create GNContext.")
         attach == <<ECall("attach", h, 0, <<>>)>>
         applied == ApplyOptions(optsV, accepts, h, E0)
         pre == create \o del1 \o attach
         destroy == <<ECall("destroy", h, 0, <<>>)>>
     IN IF ~attached
        THEN \* lines 371-376
             /\ last' = OpRec("new", <<optsV>>,
                              Exc("Error", "Unable to attach to Node."),
                              Undefined, <<>>, pre \o destroy, "none", 0, 0,
                              IF created THEN 2 ELSE 1)
             /\ engine' = EngineDestroy(h, E0)
             /\ obj' = "failed"
             /\ halted' = (~created /\ abort)
        ELSE IF applied.exc # NoExc
        THEN \* lines 385-390
             /\ last' = [OpRec("new", <<optsV>>, applied.exc, Undefined, <<>>,
                               pre \o applied.eng \o destroy, "none", 0, 0,
                               IF created THEN Len(pre \o applied.eng) ELSE 1)
                           EXCEPT !.mem = applied.mem]
             /\ engine' = EngineDestroy(h, applied.E)
             /\ obj' = "failed"
             /\ halted' = (~created /\ abort)
        ELSE \* line 392
             /\ last' = [OpRec("new", <<optsV>>, exc1,
                               IF created THEN This ELSE Undefined, <<>>,
                               pre \o applied.eng, "none", 0, 0,
                               IF created THEN 0 ELSE 1)
                           EXCEPT !.mem = applied.mem]
             /\ engine' = applied.E
             /\ obj' = IF created THEN "live" ELSE "failed"
             /\ halted' = FALSE
  /\ context_' = IF obj' = "live" THEN "ctx" ELSE "NULL"
  /\ UNCHANGED <<refs, trans, issued>>

(* --------------------------- property setter --------------------------- *)
\* the names and values the host assigns to properties of the context
PropNames ==
  {"stub", "use_threads", "return_dnssec_status", "upstreams", "timeout",
   "resolution_type", "edns_version", "limit_outstanding_queries", "color"}
PropValues ==
  { Bool(TRUE), Bool(FALSE), Num(500), Num(70000), Str("blue"),
    Arr(<<Str("8.8.8.8")>>), Arr(<<Str("1.2.3.4"), Str("not-an-ip")>>) }

\* ctx[name] = value on the constructed object
SetProperty(name, value, accept) ==
  /\ obj = "live" /\ ~halted
  /\ LET r == IF HasAccessor(name)
              THEN SetContextValue(name, value, context_, engine, accept)
              ELSE SetRes(<<>>, NoExc, engine)
     IN /\ last' = [OpRec("set", <<Str(name), value>>, r.exc, Undefined, <<>>,
                          r.eng, "none", 0, 0, 0) EXCEPT !.mem = r.mem]
        /\ engine' = r.E
  /\ UNCHANGED <<obj, context_, refs, trans, issued, halted>>

(* ------------------------------- destroy ------------------------------- *)
\* NAN_METHOD(GNContext::Destroy), lines 345-354
Destroy ==
  /\ obj = "live" /\ ~halted
  /\ last' = OpRec("destroy", <<>>, NoExc, NanTrue, <<>>,
                   <<ECall("destroy", context_, 0, <<>>)>>, "none", 0, 0, 0)
  /\ engine' = EngineDestroy(context_, engine)
  /\ context_' = "NULL"
  /\ UNCHANGED <<obj, refs, trans, issued, halted>>

\* The collector finalizes the object: ObjectWrap keeps it alive while
\* refs_ > 0; ~GNContext (lines 295-298) destroys the engine context.
Finalize ==
  /\ obj = "live" /\ ~halted
  /\ refs = 0
  /\ last' = OpRec("finalize", <<>>, NoExc, Undefined, <<>>,
                   <<ECall("destroy", context_, 0, <<>>)>>, "none", 0, 0, 0)
  /\ engine' = EngineDestroy(context_, engine)
  /\ context_' = "NULL"
  /\ obj' = "collected"
  /\ UNCHANGED <<refs, trans, issued, halted>>

(* ---------------------------- issuing calls ---------------------------- *)
\* What an issuing call did.  halt: the process aborted inside the call;
\* fatal: node::FatalException was entered; accepted: the engine took the
\* request, with cb as the callback of its CallbackData; mem: the engine
\* structures the call allocated and released.
Outcome(halt, exc, ret, cbs, eng, data, refd, unrefd, accepted, cb, fatal) ==
  [halt |-> halt, exc |-> exc, ret |-> ret, cbs |-> cbs, eng |-> eng,
   data |-> data, refd |-> refd, unrefd |-> unrefd, accepted |-> accepted,
   cb |-> cb, fatal |-> fatal, r |-> GETDNS_RETURN_GOOD, mem |-> <<>>]

\* mutant: the handle is never checked
ContextValid_Unchecked(h) == TRUE
\* the check `!ctx || !ctx->context_` of lines 461, 527 and 432, negated
ContextValid(h) == h = "ctx"

\* args[i], undefined outside the argument list
ArgAt(args, i) == IF i >= 1 /\ i <= Len(args) THEN args[i] ELSE Undef
\* a call of value cb raises: the host function does, or cb is not callable
Raises(cb, raise) == ~IsFunction(cb) \/ raise
RaisedExc == Exc("Error", "raised in the host callback")

\* mutant: a rejected request keeps its CallbackData and its reference
AfterIssue_NoRelease(exc, localCb, eng, r, transId, raise) ==
  IF r # GETDNS_RETURN_GOOD
  THEN [Outcome(FALSE, IF Raises(localCb, raise) THEN RaisedExc ELSE exc,
                Undefined,
                CallHost(localCb, <<makeErrorObj("Error issuing query", r)>>),
                eng, "kept", 1, 0, FALSE, localCb, FALSE) EXCEPT !.r = r]
  ELSE Outcome(FALSE, exc, convertToBuffer(transId, TransIdLen), <<>>, eng,
               "kept", 1, 0, TRUE, localCb, FALSE)
\* mutant: ctx->Ref() is left out
AfterIssue_NoRef(exc, localCb, eng, r, transId, raise) ==
  IF r # GETDNS_RETURN_GOOD
  THEN [Outcome(FALSE, IF Raises(localCb, raise) THEN RaisedExc ELSE exc,
                Undefined,
                CallHost(localCb, <<makeErrorObj("Error issuing query", r)>>),
                eng, "freed", 0, 0, FALSE, localCb, FALSE) EXCEPT !.r = r]
  ELSE Outcome(FALSE, exc, convertToBuffer(transId, TransIdLen), <<>>, eng,
               "kept", 0, 0, TRUE, localCb, FALSE)
\* Lines 572-585 of HelperLookup and 495-508 of Lookup: the engine's answer r
\* to the issuing call whose engine calls were eng.
AfterIssue(exc, localCb, eng, r, transId, raise) ==
  IF r # GETDNS_RETURN_GOOD
  THEN [Outcome(FALSE, IF Raises(localCb, raise) THEN RaisedExc ELSE exc,
                Undefined,
                CallHost(localCb, <<makeErrorObj("Error issuing query", r)>>),
                eng, "freed", 1, 1, FALSE, localCb, FALSE) EXCEPT !.r = r]
  ELSE Outcome(FALSE, exc, convertToBuffer(transId, TransIdLen), <<>>, eng,
               "kept", 1, 0, TRUE, localCb, FALSE)

\* GNUtil::convertToDict(args[i]->ToObject()) of lines 481 and 538: the
\* extension dictionary made from the host's object when the call has more
\* than n arguments and argument i is an object
Extension(args, n, i) ==
  IF Len(args) > n /\ IsObject(ArgAt(args, i))
  THEN <<MEv("create", "extension", 0)>> ELSE <<>>

\* NAN_METHOD(GNContext::Lookup), lines 448-508.  h: ctx->context_; r: the
\* engine's status for the request; transId: the id it assigns; raise: the
\* host callback raises when called; checked: the build checks
\* Local<Function>::Cast and aborts on a value that is no function.
Lookup(args, h, r, transId, raise, checked) ==
  LET exc1 == IF Len(args) < 3
              THEN Exc("TypeError", "At least 3 arguments are required.")
              ELSE NoExc
      lastArg == ArgAt(args, Len(args))
      exc2 == IF ~IsFunction(lastArg)
              THEN Exc("TypeError", "Final argument must be a function.")
              ELSE exc1
      localCb == lastArg
  IN IF ~IsFunction(lastArg) /\ checked
     THEN Outcome(TRUE, exc2, Undefined, <<>>, <<>>, "none", 0, 0, FALSE,
                  localCb, FALSE)
     ELSE IF ~ContextValid(h)
     THEN Outcome(FALSE, exc2, Undefined,
                  CallHost(localCb, <<makeErrorObj("Context is invalid",
                                                   GETDNS_RETURN_GENERIC_ERROR)>>),
                  <<>>, "none", 0, 0, FALSE, localCb, Raises(localCb, raise))
     ELSE IF ~IsNumber(ArgAt(args, 2))
     THEN Outcome(FALSE, exc2, Undefined,
                  CallHost(localCb, <<makeErrorObj("Second argument must be a number",
                                                   GETDNS_RETURN_INVALID_PARAMETER)>>),
                  <<>>, "none", 0, 0, FALSE, localCb, Raises(localCb, raise))
     ELSE [AfterIssue(exc2, localCb,
                      <<ECall("general", h, uint16_t(Uint32Value(ArgAt(args, 2))),
                              <<>>)>>,
                      r, transId, raise)
             EXCEPT !.mem = Extension(args, 3, 3)]

\* enum LookupType, lines 42-46
GNAddress == 0
GNHostname == 1
GNService == 2

\* NAN_METHOD(GNContext::HelperLookup), lines 511-585
HelperLookup(funcType, args, h, r, transId, raise, checked) ==
  LET exc1 == IF Len(args) < 2
              THEN Exc("TypeError", "At least 2 arguments are required.")
              ELSE NoExc
      lastArg == ArgAt(args, Len(args))
      exc2 == IF ~IsFunction(lastArg)
              THEN Exc("TypeError", "Final argument must be a function.")
              ELSE exc1
      localCb == lastArg
      name == ToStr(ArgAt(args, 1))
      ip == getdns_util_create_ip(name)
      extension == Extension(args, 2, 2)
  IN IF ~IsFunction(lastArg) /\ checked
     THEN Outcome(TRUE, exc2, Undefined, <<>>, <<>>, "none", 0, 0, FALSE,
                  localCb, FALSE)
     ELSE IF ~ContextValid(h)
     THEN Outcome(FALSE, IF Raises(localCb, raise) THEN RaisedExc ELSE exc2,
                  Undefined,
                  CallHost(localCb, <<makeErrorObj("Context is invalid",
                                                   GETDNS_RETURN_GENERIC_ERROR)>>),
                  <<>>, "none", 0, 0, FALSE, localCb, FALSE)
     ELSE IF funcType = GNAddress
     THEN [AfterIssue(exc2, localCb, <<ECall("address", h, 0, <<>>)>>, r,
                      transId, raise) EXCEPT !.mem = extension]
     ELSE IF funcType = GNService
     THEN [AfterIssue(exc2, localCb, <<ECall("service", h, 0, <<>>)>>, r,
                      transId, raise) EXCEPT !.mem = extension]
     ELSE IF ip # NullDict
     THEN [AfterIssue(exc2, localCb, <<ECall("hostname", h, 0, <<ip>>)>>, r,
                      transId, raise)
             EXCEPT !.mem = extension \o <<MEv("create", "ip", 0),
                                           MEv("destroy", "ip", 0)>>]
     ELSE [AfterIssue(exc2, localCb, <<>>, GETDNS_RETURN_GENERIC_ERROR,
                      transId, raise) EXCEPT !.mem = extension]

\* the argument lists the host calls lookup and the helpers with; f is the
\* function it passes as callback
LookupArgs(f) ==
  { <<f>>, <<Str("example.com"), Num(1)>>,
    <<Str("example.com"), Num(1), f>>, <<Str("example.com"), Str("A"), f>>,
    <<Str("example.com"), Num(1), Str("example.com")>>,
    <<Str("example.com"), Num(1), Obj, f>> }
HelperArgs(f) ==
  { <<f>>, <<Str("example.com")>>, <<Str("example.com"), f>>,
    <<Str("1.2.3.4"), f>>, <<Str("example.com"), Obj, f>> }
\* the statuses the engine answers a request with
Statuses == {GETDNS_RETURN_GOOD, GETDNS_RETURN_BAD_DOMAIN_NAME}

\* mutant: the callback is kept in one place shared by all CallbackData
Issued_SharedCallback(op, args, o, exits) ==
  /\ last' = [OpRec(op, args, o.exc, o.ret, o.cbs, o.eng, o.data, o.refd,
                    o.unrefd, 0) EXCEPT !.r = o.r, !.mem = o.mem]
  /\ halted' = (o.halt \/ (o.fatal /\ exits))
  /\ refs' = refs + o.refd - o.unrefd
  /\ IF o.accepted
     THEN /\ issued' = issued + 1
          /\ trans' = [k \in 1..MaxTrans |->
                         IF k = issued + 1
                         THEN [FreeSlot EXCEPT !.st = "pending", !.cb = o.cb,
                                               !.idret = (o.exc = NoExc),
                                               !.calls = Len(o.cbs)]
                         ELSE IF trans[k].st = "pending"
                         THEN [trans[k] EXCEPT !.cb = o.cb]
                         ELSE trans[k]]
     ELSE UNCHANGED <<issued, trans>>
  /\ UNCHANGED <<obj, context_, engine>>
\* The state change of an issuing call with outcome o.  exits: the process
\* exits when node::FatalException is entered.
Issued(op, args, o, exits) ==
  /\ last' = [OpRec(op, args, o.exc, o.ret, o.cbs, o.eng, o.data, o.refd,
                    o.unrefd, 0) EXCEPT !.r = o.r, !.mem = o.mem]
  /\ halted' = (o.halt \/ (o.fatal /\ exits))
  /\ refs' = refs + o.refd - o.unrefd
  /\ IF o.accepted
     THEN /\ issued' = issued + 1
          /\ trans' = [trans EXCEPT ![issued + 1] =
                         [FreeSlot EXCEPT !.st = "pending", !.cb = o.cb,
                                          !.idret = (o.exc = NoExc),
                                          !.calls = Len(o.cbs)]]
     ELSE UNCHANGED <<issued, trans>>
  /\ UNCHANGED <<obj, context_, engine>>

\* ctx.lookup(args...)
LookupCall(args, r, raise, exits, checked) ==
  /\ obj = "live" /\ ~halted
  /\ r = GETDNS_RETURN_GOOD => issued < MaxTrans
  /\ Issued("lookup", args,
            Lookup(args, context_, r, EngineId(issued + 1), raise, checked),
            exits)

HelperName(funcType) ==
  CASE funcType = GNAddress -> "getAddress"
    [] funcType = GNHostname -> "getHostname"
    [] OTHER -> "getService"

\* ctx.getAddress(args...), ctx.getHostname(args...), ctx.getService(args...)
HelperCall(funcType, args, r, raise, exits, checked) ==
  /\ obj = "live" /\ ~halted
  /\ r = GETDNS_RETURN_GOOD => issued < MaxTrans
  /\ Issued(HelperName(funcType), args,
            HelperLookup(funcType, args, context_, r, EngineId(issued + 1),
                         raise, checked),
            exits)

(* ------------------------- the completion bridge ----------------------- *)
\* the completion kinds the engine reports
CallbackTypes ==
  {GETDNS_CALLBACK_COMPLETE, GETDNS_CALLBACK_CANCEL, GETDNS_CALLBACK_TIMEOUT}

\* mutant: the transaction id is not passed on
CallbackArgv_NoId(cbType, transId) ==
  IF cbType = GETDNS_CALLBACK_COMPLETE
  THEN <<NanNull, convertToJSObj>>
  ELSE <<makeErrorObj("Lookup failed.", cbType), NanNull>>
\* mutant: the error object carries a fixed code, not the completion kind
CallbackArgv_FixedCode(cbType, transId) ==
  IF cbType = GETDNS_CALLBACK_COMPLETE
  THEN <<NanNull, convertToJSObj, convertToBuffer(transId, TransIdLen)>>
  ELSE <<makeErrorObj("Lookup failed.", GETDNS_RETURN_GENERIC_ERROR), NanNull,
         convertToBuffer(transId, TransIdLen)>>
\* argv of GNContext::Callback, lines 406-416
CallbackArgv(cbType, transId) ==
  IF cbType = GETDNS_CALLBACK_COMPLETE
  THEN <<NanNull, convertToJSObj, convertToBuffer(transId, TransIdLen)>>
  ELSE <<makeErrorObj("Lookup failed.", cbType), NanNull,
         convertToBuffer(transId, TransIdLen)>>

\* mutant: the bridge returns after node::FatalException, before the Unref
\* and the deletes
Callback_ReturnsOnFatal(k, cbType, raise, exits) ==
  /\ ~halted
  /\ trans[k].st = "pending"
  /\ (trans[k].cancelled \/ ~engine.alive) <=> (cbType = GETDNS_CALLBACK_CANCEL)
  /\ LET data == trans[k]
         cbs == CallHost(data.cb, CallbackArgv(cbType, EngineId(k)))
         fatal == Raises(data.cb, raise)
         called == [data EXCEPT !.calls = @ + Len(cbs)]
     IN IF fatal
        THEN /\ trans' = [trans EXCEPT ![k] = [called EXCEPT !.st = "done"]]
             /\ last' = OpRec("callback", <<Num(cbType)>>, RaisedExc, Undefined, cbs, <<>>,
                              "kept", 0, 0, 0)
             /\ halted' = exits
             /\ UNCHANGED refs
        ELSE /\ trans' = [trans EXCEPT ![k] =
                            [called EXCEPT !.st = "done", !.frees = @ + 1]]
             /\ last' = OpRec("callback", <<Num(cbType)>>, NoExc, Undefined, cbs, <<>>,
                              "freed", 0, 1, 0)
             /\ refs' = refs - 1
             /\ UNCHANGED halted
  /\ UNCHANGED <<obj, context_, engine, issued>>
\* GNContext::Callback, lines 399-426: the engine completes transaction k
\* with kind cbType.  A cancelled transaction, and one of a destroyed
\* context, completes as cancelled.
Callback(k, cbType, raise, exits) ==
  /\ ~halted
  /\ trans[k].st = "pending"
  /\ (trans[k].cancelled \/ ~engine.alive) <=> (cbType = GETDNS_CALLBACK_CANCEL)
  /\ LET data == trans[k]
         argv == CallbackArgv(cbType, EngineId(k))
         cbs == CallHost(data.cb, argv)
         fatal == Raises(data.cb, raise)
         called == [data EXCEPT !.calls = @ + Len(cbs)]
         exc == IF fatal THEN RaisedExc ELSE NoExc
         eng == IF cbType = GETDNS_CALLBACK_COMPLETE
                THEN <<ECall("dict_destroy", "response", 0, <<>>)>> ELSE <<>>
     IN IF fatal /\ exits
        THEN \* node::FatalException ends the process at line 420
             /\ trans' = [trans EXCEPT ![k] = called]
             /\ last' = OpRec("callback", <<Num(cbType)>>, exc, Undefined, cbs, eng,
                              "kept", 0, 0, 0)
             /\ halted' = TRUE
             /\ UNCHANGED refs
        ELSE /\ trans' = [trans EXCEPT ![k] =
                            [called EXCEPT !.st = "done", !.frees = @ + 1]]
             /\ last' = OpRec("callback", <<Num(cbType)>>, exc, Undefined, cbs, eng,
                              "freed", 0, 1, 0)
             /\ refs' = refs - 1
             /\ UNCHANGED halted
  /\ UNCHANGED <<obj, context_, engine, issued>>

(* ------------------------------- cancel -------------------------------- *)
\* node::Buffer::Length
BufferLength(v) == Len(v.a)
\* the argument lists the host calls cancel with
CancelArgs ==
  { <<>> } \cup { <<Buf(BytesOf(EngineId(k), n))>> :
                    k \in 1..MaxTrans, n \in {4, TransIdLen, 9} }

\* the transactions getdns_cancel_callback finds under transId
Cancellable(transId) ==
  { k \in 1..MaxTrans : /\ trans[k].st = "pending" /\ ~trans[k].cancelled
                        /\ EngineId(k) = transId }

\* mutant: the length of the buffer is not checked
CancelRejects_AnyLength(h, args) == ~ContextValid(h) \/ Len(args) < 1
\* the three early returns of Cancel, lines 432-440
CancelRejects(h, args) ==
  ~ContextValid(h) \/ Len(args) < 1 \/ BufferLength(ArgAt(args, 1)) # 8

\* mutant: a successful cancel releases the CallbackData and the reference
Cancel_Releases(args) ==
  /\ obj = "live" /\ ~halted
  /\ IF CancelRejects(context_, args)
     THEN /\ last' = OpRec("cancel", args, NoExc, NanFalse, <<>>, <<>>,
                           "none", 0, 0, 0)
          /\ UNCHANGED <<trans, refs>>
     ELSE LET transId == memcpy(args[1].a)
              found == Cancellable(transId)
          IN /\ last' = OpRec("cancel", args, NoExc,
                              IF found # {} THEN NanTrue ELSE NanFalse, <<>>,
                              <<ECall("cancel_callback", context_, transId, <<>>)>>,
                              IF found # {} THEN "freed" ELSE "none", 0,
                              Cardinality(found), 0)
             /\ trans' = [k \in 1..MaxTrans |->
                            IF k \in found
                            THEN [trans[k] EXCEPT !.st = "done", !.frees = @ + 1]
                            ELSE trans[k]]
             /\ refs' = refs - Cardinality(found)
  /\ UNCHANGED <<obj, context_, engine, issued, halted>>
\* NAN_METHOD(GNContext::Cancel), lines 429-445
Cancel(args) ==
  /\ obj = "live" /\ ~halted
  /\ IF CancelRejects(context_, args)
     THEN /\ last' = OpRec("cancel", args, NoExc, NanFalse, <<>>, <<>>,
                           "none", 0, 0, 0)
          /\ UNCHANGED trans
     ELSE LET transId == memcpy(args[1].a)
              found == Cancellable(transId)
          IN /\ last' = OpRec("cancel", args, NoExc,
                              IF found # {} THEN NanTrue ELSE NanFalse, <<>>,
                              <<ECall("cancel_callback", context_, transId, <<>>)>>,
                              "none", 0, 0, 0)
             /\ trans' = [k \in 1..MaxTrans |->
                            IF k \in found
                            THEN [trans[k] EXCEPT !.cancelled = TRUE]
                            ELSE trans[k]]
  /\ UNCHANGED <<obj, context_, refs, engine, issued, halted>>

(* --------------------------- the specification ------------------------- *)
\* the values of an input that matters only when relevant holds
Flags(relevant) == IF relevant THEN BOOLEAN ELSE {FALSE}
NotCallable(args) == ~IsFunction(ArgAt(args, Len(args)))

Construct(objects) ==
  \E optsV \in objects, accepts \in [1..MaxOpts -> BOOLEAN],
     created, attached \in BOOLEAN :
    \E stale \in IF created THEN {"NULL"} ELSE {"NULL", "wild"},
       abort \in Flags(~created) :
      New(optsV, accepts, created, attached, stale, abort)

IssueLookup(argLists) ==
  \E args \in argLists, r \in Statuses :
    \E checked \in Flags(NotCallable(args)), raise \in Flags(~NotCallable(args)) :
      \E exits \in Flags(raise \/ NotCallable(args)) :
        LookupCall(args, r, raise, exits, checked)

IssueHelper(funcTypes, argLists) ==
  \E funcType \in funcTypes, args \in argLists, r \in Statuses :
    \E checked \in Flags(NotCallable(args)), raise \in Flags(~NotCallable(args)) :
      HelperCall(funcType, args, r, raise, FALSE, checked)

Complete ==
  \E k \in 1..MaxTrans, cbType \in CallbackTypes, raise \in BOOLEAN :
    \E exits \in Flags(raise \/ ~IsFunction(trans[k].cb)) :
      Callback(k, cbType, raise /\ IsFunction(trans[k].cb), exits)

\* the transaction lifecycle of a context constructed without options
Next ==
  \/ Construct({Undef})
  \/ IssueLookup(LookupArgs(Fn(issued + 1)))
  \/ IssueHelper({GNAddress, GNHostname, GNService},
                 HelperArgs(Fn(issued + 1)))
  \/ \E args \in CancelArgs : Cancel(args)
  \/ Destroy
  \/ Complete
  \/ Finalize

Spec == Init /\ [][Next]_vars

\* the engine completes transaction k
CompleteK(k) ==
  \E cbType \in CallbackTypes, raise, exits \in BOOLEAN :
    Callback(k, cbType, raise /\ IsFunction(trans[k].cb), exits)
\* The same lifecycle with fewer kinds of call, for the properties of
\* behaviours: one well-formed and one malformed argument list per method,
\* and the cancel of each transaction.
FairNext ==
  \/ Construct({Undef})
  \/ IssueLookup({ <<Str("example.com"), Num(1), Fn(issued + 1)>>,
                   <<Str("example.com"), Num(1), Str("example.com")>> })
  \/ IssueHelper({GNAddress},
                 { <<Str("example.com"), Fn(issued + 1)>>, <<Fn(issued + 1)>> })
  \/ \E k \in 1..MaxTrans : Cancel(<<Buf(BytesOf(EngineId(k), TransIdLen))>>)
  \/ Destroy
  \/ Complete
  \/ Finalize
\* The engine fires the completion function of every accepted transaction.
FairSpec ==
  Init /\ [][FairNext]_vars /\ \A k \in 1..MaxTrans : WF_vars(CompleteK(k))

\* construction with options and the property setters
NextOptions ==
  \/ Construct(OptionObjects)
  \/ \E name \in PropNames, value \in PropValues, accept \in BOOLEAN :
       SetProperty(name, value, accept)
  \/ Destroy
  \/ Finalize

SpecOptions == Init /\ [][NextOptions]_vars

\* the numeric options with the values of every width and sign, and with
\* values that are no numbers
NumericPropNames ==
  {"edns_extended_rcode", "edns_version", "edns_do_bit",
   "limit_outstanding_queries", "edns_maximum_udp_payloadSize", "color"}
NumericValues ==
  { Num(n) : n \in {0, 1, 255, 256, 300, 65535, 65536, 65541, 70000,
                    2147483647, -1, -256, -65536, -2147483647} }
    \cup {Str("7"), Bool(TRUE), Undef, Arr(<<>>)}
NextNumeric ==
  \/ Construct({Undef})
  \/ \E name \in NumericPropNames, value \in NumericValues :
       SetProperty(name, value, FALSE)
  \/ Destroy

SpecNumeric == Init /\ [][NextNumeric]_vars

(* ------------------------------ properties ----------------------------- *)
IssueOps == {"lookup", "getAddress", "getHostname", "getService"}
HelperOps == IssueOps \ {"lookup"}
\* the last argument of the latest operation
LastArg(l) == ArgAt(l.args, Len(l.args))
Pending == { k \in 1..MaxTrans : trans[k].st = "pending" }
\* the operation raised an error of the binding (not one of the callback)
ThrowsOwn(l) == l.exc \notin {NoExc, RaisedExc}

\* C1: the host callback of every transaction whose issuing call returned an
\* id is invoked at most once, and exactly once by the time its completion
\* has been handled, which happens for every such transaction as long as the
\* process runs - whatever the completion kind and whatever cancel or
\* destroy calls come before the completion.
C1_ExactlyOnce ==
  /\ [](\A k \in 1..MaxTrans :
          trans[k].idret =>
            /\ trans[k].calls <= 1
            /\ trans[k].st = "done" => trans[k].calls = 1)
  /\ \A k \in 1..MaxTrans :
       (trans[k].idret) ~> (trans[k].calls = 1 \/ halted)
\* C1 witness: a cancelled transaction of a destroyed context had its
\* callback invoked once by the completion step.
C1_Witness ==
  \E k \in 1..MaxTrans :
    /\ trans[k].idret /\ trans[k].st = "done" /\ trans[k].calls = 1
    /\ trans[k].cancelled /\ context_ = "NULL" /\ last.op = "callback"

\* the value is a list with an element that converts to no address
HasInvalidUpstream(value) ==
  IsArray(value) /\ \E i \in 1..Len(value.a) : UpstreamDict(value.a[i]) = NullDict
\* C2 (as claimed): setting upstreams / upstream_recursive_servers to a list
\* with an element that is no address raises a type error, makes no call of
\* the engine's upstream-list setter and leaves the installed list as it was.
C2_NoPartialCommit ==
  [][(/\ last'.op = "set"
      /\ last'.args[1].s \in {"upstreams", "upstream_recursive_servers"}
      /\ HasInvalidUpstream(last'.args[2]))
     => (/\ last'.exc.type = "TypeError"
         /\ \A i \in 1..Len(last'.eng) :
              last'.eng[i].f # "set_upstream_recursive_servers"
         /\ engine'.upstreams = engine.upstreams)]_vars

\* what an issuing call does when it finds the context invalid
InvalidContextReport(l) ==
  /\ l.cbs = <<Invocation(LastArg(l),
                          <<makeErrorObj("Context is invalid",
                                         GETDNS_RETURN_GENERIC_ERROR)>>)>>
  /\ l.eng = <<>> /\ l.data = "none" /\ l.refd = 0
  /\ l.ret.k # "buffer" /\ ~ThrowsOwn(l)
DestroyTrue == last.op = "destroy" => last.ret = NanTrue /\ last.exc = NoExc
\* C3 (as claimed): destroy() returns true every time; after a destroy every
\* issuing call whose last argument is a function invokes it exactly once
\* with 'Context is invalid', calls no engine function, makes no
\* CallbackData, takes no reference, returns no id and raises nothing.
C3_Original ==
  /\ DestroyTrue
  /\ (last.op \in IssueOps /\ ~last.active /\ IsFunction(LastArg(last)))
       => InvalidContextReport(last)
EnoughArgs(l) == Len(l.args) >= (IF l.op = "lookup" THEN 3 ELSE 2)
\* C3 (amended): the same for the calls that have the arguments the method
\* requires: at least 3 for lookup, at least 2 for the helpers.
C3_Amended ==
  /\ DestroyTrue
  /\ (last.op \in IssueOps /\ ~last.active /\ IsFunction(LastArg(last))
        /\ EnoughArgs(last))
       => InvalidContextReport(last)
\* C3 witness: lookup with its three arguments reported on a destroyed
\* context.
C3_Witness ==
  /\ last.op = "lookup" /\ ~last.active /\ EnoughArgs(last)
  /\ IsFunction(LastArg(last)) /\ Len(last.cbs) = 1 /\ engine.destroys = 1

\* C4 (as claimed): no step tears the engine context down while a
\* CallbackData references the context.
C4_Original == [][(Pending # {} /\ engine.alive) => engine'.alive]_vars
\* C4 (amended): while a CallbackData references the context the object is
\* not finalized, and the only step that tears the engine context down then
\* is an explicit destroy().
C4_Amended ==
  [][(Pending # {} /\ engine.alive)
       => (obj' = "live" /\ (~engine'.alive => last'.op = "destroy"))]_vars
\* C4 witness: destroy() tore the engine context down with a transaction
\* outstanding and its reference held.
C4_Witness ==
  Pending # {} /\ ~engine.alive /\ last.op = "destroy" /\ refs > 0

\* the argument lists the issuing methods reject
Malformed(l) ==
  IF l.op = "lookup"
  THEN Len(l.args) < 3 \/ ~IsFunction(LastArg(l)) \/ ~IsNumber(ArgAt(l.args, 2))
  ELSE Len(l.args) < 2 \/ ~IsFunction(LastArg(l))
\* C5 (as claimed): a malformed argument list never reaches the engine: no
\* engine call, no CallbackData, no reference.
C5_MalformedStaysLocal ==
  (last.op \in IssueOps /\ Malformed(last))
    => (last.eng = <<>> /\ last.data = "none" /\ last.refd = 0)

IdReturned(l) == l.ret.k = "buffer" /\ l.exc = NoExc
\* C6: an issuing call on an active context that is given a callback never
\* both returns an id and invokes the callback.  When it returns an id it
\* has invoked nothing, holds one reference and its CallbackData is that of
\* the new pending transaction.  When the request is rejected the call has
\* freed the CallbackData, released the reference, invoked the callback
\* once with 'Error issuing query' and the status, returns no id, and leaves
\* no transaction for the completion function to run on.
C6_IssueOrReport ==
  [][(last'.op \in IssueOps /\ last'.active /\ IsFunction(LastArg(last')))
     => (/\ ~(IdReturned(last') /\ last'.cbs # <<>>)
         /\ IdReturned(last')
              => (/\ last'.cbs = <<>> /\ last'.data = "kept"
                  /\ last'.refd = 1 /\ last'.unrefd = 0 /\ refs' = refs + 1
                  /\ issued' = issued + 1
                  /\ trans'[issued'].st = "pending"
                  /\ trans'[issued'].cb = LastArg(last')
                  /\ trans'[issued'].calls = 0)
         /\ last'.r # GETDNS_RETURN_GOOD
              => (/\ last'.data = "freed"
                  /\ last'.refd = 1 /\ last'.unrefd = 1 /\ refs' = refs
                  /\ last'.cbs =
                       <<Invocation(LastArg(last'),
                                    <<makeErrorObj("Error issuing query",
                                                   last'.r)>>)>>
                  /\ last'.ret.k # "buffer"
                  /\ issued' = issued /\ trans' = trans))]_vars
\* C6 witness: the engine rejected a getService request on an active context
\* while another transaction was pending.
C6_Witness ==
  /\ last.op = "getService" /\ last.active /\ IsFunction(LastArg(last))
  /\ last.r = GETDNS_RETURN_BAD_DOMAIN_NAME /\ Len(last.cbs) = 1
  /\ last.eng # <<>> /\ Pending # {}

ThreeArgs(argv) ==
  /\ Len(argv) = 3
  /\ argv[1].k \in {"error", "null"}
  /\ argv[2].k \in {"result", "null"}
  /\ argv[3].k = "buffer" /\ Len(argv[3].bytes) = 8
\* C7 (as claimed): every invocation of a host callback passes exactly three
\* arguments: error or null, result or null, the 8-byte id buffer.
C7_Original == \A i \in 1..Len(last.cbs) : ThreeArgs(last.cbs[i].argv)
\* C7 (amended): every invocation by the completion bridge passes exactly
\* these three arguments; every invocation by an issuing call itself (request
\* rejected, context invalid, query type not a number) passes exactly one
\* argument, the error object.
C7_Amended ==
  \A i \in 1..Len(last.cbs) :
    IF last.op = "callback" THEN ThreeArgs(last.cbs[i].argv)
    ELSE /\ last.op \in IssueOps
         /\ Len(last.cbs[i].argv) = 1 /\ last.cbs[i].argv[1].k = "error"
\* C7 witness: the completion bridge delivered a failure kind.
C7_Witness ==
  /\ last.op = "callback" /\ Len(last.cbs) = 1
  /\ last.cbs[1].argv[1].k = "error" /\ last.cbs[1].argv[2] = NanNull

\* C8: cancel on a destroyed context, without an argument or with a buffer
\* that is not 8 bytes long returns false, calls no engine function and
\* changes no transaction, reference or context state.
C8_CancelRejected ==
  [][(/\ last'.op = "cancel"
      /\ \/ ~last'.active \/ Len(last'.args) = 0
         \/ BufferLength(ArgAt(last'.args, 1)) # 8)
     => (/\ last'.ret = NanFalse /\ last'.eng = <<>> /\ last'.cbs = <<>>
         /\ UNCHANGED <<obj, context_, refs, engine, trans, issued, halted>>)]_vars
\* C8 witness: cancel with a 4-byte buffer on an active context that has a
\* pending transaction.
C8_Witness ==
  /\ last.op = "cancel" /\ last.active /\ Len(last.args) = 1
  /\ BufferLength(last.args[1]) = 4 /\ last.ret = NanFalse /\ Pending # {}

\* the engine calls of a constructor after it detected its failure
CallsAfterFailure(l) == SubSeq(l.eng, l.failAt + 1, Len(l.eng))
\* C9 (as claimed): when construction fails the constructor raises, the
\* engine context, if it was created, is destroyed exactly once, no other
\* engine call follows the detection of the failure, and the object never
\* becomes active.
C9_FailedConstruction ==
  (last.op = "new" /\ last.failAt > 0)
    => (/\ last.exc # NoExc
        /\ obj # "live" /\ context_ = "NULL"
        /\ \A i \in 1..Len(CallsAfterFailure(last)) :
             /\ CallsAfterFailure(last)[i].f = "destroy"
             /\ CallsAfterFailure(last)[i].h # "wild"
        /\ Cardinality({ i \in 1..Len(last.eng) :
                           last.eng[i] = ECall("destroy", "ctx", 0, <<>>) })
             = (IF \E i \in 1..Len(last.eng) : last.eng[i].h = "ctx"
                THEN 1 ELSE 0))

\* the options pass of the constructor ran on a created, attached context
OptionsRan(l) ==
  /\ l.op = "new" /\ isDictionaryObject(l.args[1])
  /\ Len(l.eng) >= 2 /\ l.eng[2] = ECall("attach", "ctx", 0, <<>>)
  /\ Len(l.eng) > 2 => l.eng[3].f # "destroy"
\* the pass raised the conversion error of an upstream list
ConversionError(l) ==
  OptionsRan(l) /\ l.exc = Exc("TypeError", "Upstream value is invalid: ")
\* the first key of the options whose list has an invalid element
Malformed1(opts) ==
  CHOOSE m \in 1..Len(opts) :
    /\ InTable(opts[m].name, SETTERS) /\ HasInvalidUpstream(opts[m].value)
    /\ opts[m].name \in {"upstreams", "upstream_recursive_servers"}
    /\ \A j \in 1..(m - 1) :
         ~(opts[j].name \in {"upstreams", "upstream_recursive_servers"}
             /\ HasInvalidUpstream(opts[j].value))
\* the engine calls that applying one key to a fresh context makes
CallsOf(pair) ==
  SetContextValue(pair.name, pair.value, "ctx", EngineDefault, TRUE).eng
\* the key was applied: its engine calls were made
Applied(pair, l) ==
  \A c \in 1..Len(CallsOf(pair)) :
    \E i \in 1..Len(l.eng) : l.eng[i] = CallsOf(pair)[c]
NotApplied(pair, l) ==
  \A c \in 1..Len(CallsOf(pair)) :
    \A i \in 1..Len(l.eng) : l.eng[i] # CallsOf(pair)[c]
\* C10 (as claimed): a malformed upstream list in the options object aborts
\* only that list: every other recognized key, before or after it, is still
\* applied to the engine context.
C10_Original ==
  ConversionError(last)
    => \A i \in 1..Len(last.args[1].a) :
         (i # Malformed1(last.args[1].a) /\ HasAccessor(last.args[1].a[i].name))
           => Applied(last.args[1].a[i], last)
\* C10 (amended): the conversion error ends the pass at the malformed key:
\* every recognized key before it in key order has been applied, no key
\* after it is applied, and the constructor raises the type error and
\* destroys the context.
C10_Amended ==
  ConversionError(last)
    => /\ \A i \in 1..Len(last.args[1].a) :
            /\ (i < Malformed1(last.args[1].a)
                  /\ HasAccessor(last.args[1].a[i].name))
                 => Applied(last.args[1].a[i], last)
            /\ i > Malformed1(last.args[1].a)
                 => NotApplied(last.args[1].a[i], last)
       /\ obj = "failed" /\ ~engine.alive /\ engine.destroys = 1
\* C10 witness: the malformed list came first and the timeout key after it
\* was not applied.
C10_Witness ==
  /\ ConversionError(last) /\ Len(last.args[1].a) = 2
  /\ Malformed1(last.args[1].a) = 1
  /\ last.args[1].a[2].name = "timeout"
  /\ NotApplied(last.args[1].a[2], last)

\* the option names a table holds
Names(table) == { table[i] : i \in DOMAIN table }
NumericNames == Names(UINT8_OPTION_SETTERS) \cup Names(UINT16_OPTION_SETTERS)
\* C11: assigning one option invokes at most one engine setter.  A name of
\* the generic table never reaches a setter of the numeric tables, whatever
\* the value; a name found only in a numeric table with a numeric value
\* invokes the setter of that name and no other; a name of none of the three
\* tables invokes no engine setter, raises nothing and leaves the engine
\* context as it was.
C11_OneSetter ==
  [][last'.op = "set"
     => (/\ Len(last'.eng) <= 1
         /\ last'.args[1].s \in Names(SETTERS)
              => \A i \in 1..Len(last'.eng) : last'.eng[i].f \notin NumericNames
         /\ (last'.args[1].s \in NumericNames /\ IsNumber(last'.args[2]))
              => (Len(last'.eng) = 1 /\ last'.eng[1].f = last'.args[1].s)
         /\ last'.args[1].s \notin Names(SETTERS) \cup NumericNames
              => (last'.eng = <<>> /\ last'.exc = NoExc /\ engine' = engine))]_vars
\* C11 witness: a numeric value was assigned to the generic option timeout
\* of an active context and one engine setter was called.
C11_Witness ==
  /\ last.op = "set" /\ last.active /\ last.args[1].s = "timeout"
  /\ IsNumber(last.args[2]) /\ Len(last.eng) = 1
  /\ last.eng[1].f = "set_timeout"

\* the context was constructed and then destroyed by destroy()
Destroyed == obj = "live" /\ context_ = "NULL"
\* C12 (as claimed): a destroyed context never becomes active again, and
\* every operation on it other than destroy - setting an option property
\* included - raises the invalid-context error and calls no engine function.
C12_DestroyedRejects ==
  [][Destroyed
     => (/\ context_' = "NULL" /\ ~engine'.alive
         /\ last'.op = "set"
              => (last'.eng = <<>> /\ last'.exc.msg = "Context is invalid."))]_vars

\* the options that take a boolean, the engine setter of each and the
\* arguments that switch it on and off
BooleanOptions == {"stub", "use_threads", "return_dnssec_status"}
BooleanSetter(name) ==
  CASE name = "stub" ->
         [f |-> "set_resolution_type", on |-> GETDNS_RESOLUTION_STUB,
          off |-> GETDNS_RESOLUTION_RECURSING]
    [] name = "use_threads" -> [f |-> "set_use_threads", on |-> 1, off |-> 0]
    [] OTHER -> [f |-> "set_return_dnssec_status", on |-> GETDNS_EXTENSION_TRUE,
                 off |-> GETDNS_EXTENSION_FALSE]
\* truthiness of a host value
Truthy(v) ==
  \/ v.t = "bool" /\ v.n = 1
  \/ v.t = "num" /\ v.n # 0
  \/ v.t = "str" /\ v.s # ""
  \/ v.t \in {"obj", "dict", "arr", "fn", "buf"}
\* an assignment to a boolean option called its setter once, with the on
\* argument when on holds and the off argument otherwise
BooleanSet(l, on) ==
  /\ Len(l.eng) = 1 /\ l.eng[1].f = BooleanSetter(l.args[1].s).f
  /\ l.eng[1].n = IF on THEN BooleanSetter(l.args[1].s).on
                  ELSE BooleanSetter(l.args[1].s).off
\* a context constructed with {stub: true, timeout: 500} is in stub mode
\* with timeout 500 when the constructor has returned it
StubExample ==
  (/\ last.op = "new" /\ obj = "live"
   /\ last.args[1] = Dict(<<[name |-> "stub", value |-> Bool(TRUE)],
                            [name |-> "timeout", value |-> Num(500)]>>))
    => (/\ engine.alive /\ engine.resolution = GETDNS_RESOLUTION_STUB
        /\ engine.timeout = 500 /\ issued = 0)
\* C13 (as claimed): stub, use_threads and return_dnssec_status always call
\* their engine setter, with the on state exactly when the value is truthy;
\* and the {stub: true, timeout: 500} example.
C13_Original ==
  /\ (last.op = "set" /\ last.args[1].s \in BooleanOptions)
       => BooleanSet(last, Truthy(last.args[2]))
  /\ StubExample
\* C13 (amended): the setter is always called, with the on state exactly
\* when the value is the boolean true; every other value - false, any number
\* (non-zero ones too), strings, arrays - selects the off state; and the
\* {stub: true, timeout: 500} example.
C13_Amended ==
  /\ (last.op = "set" /\ last.args[1].s \in BooleanOptions)
       => BooleanSet(last, last.args[2] = Bool(TRUE))
  /\ StubExample
\* C13 witness: stub was assigned the truthy number 500 on an active context
\* and the engine was put into recursing mode.
C13_Witness ==
  /\ last.op = "set" /\ last.active /\ last.args[1].s = "stub"
  /\ last.args[2] = Num(500)
  /\ last.eng[1].n = GETDNS_RESOLUTION_RECURSING
  /\ engine.resolution = GETDNS_RESOLUTION_RECURSING

\* the 8 bytes of the id the engine gave its k-th transaction
IdBytes(k) == BytesOf(EngineId(k), 8)
\* the transaction a completion step completes
Completing == CHOOSE k \in 1..MaxTrans : trans'[k] # trans[k]
\* C14: the id is carried unchanged.  The buffer an accepted issuing call
\* returns holds the 8 bytes of the id the engine assigned; the third
\* argument of that transaction's callback holds the same 8 bytes; cancel
\* on an active context with an 8-byte buffer makes exactly one engine
\* cancel call, with the id whose 8 bytes are those of the buffer, and
\* returns true exactly when the engine finds a transaction to cancel under
\* that id.
C14_IdRoundTrip ==
  [][/\ (last'.op \in IssueOps /\ issued' = issued + 1)
          => (last'.ret.k = "buffer" /\ last'.ret.bytes = IdBytes(issued'))
     /\ (last'.op = "callback" /\ last'.cbs # <<>>)
          => (/\ last'.cbs[1].fn = trans[Completing].cb
              /\ last'.cbs[1].argv[3].k = "buffer"
              /\ last'.cbs[1].argv[3].bytes = IdBytes(Completing))
     /\ (/\ last'.op = "cancel" /\ last'.active /\ Len(last'.args) = 1
         /\ BufferLength(ArgAt(last'.args, 1)) = 8)
          => (/\ Len(last'.eng) = 1 /\ last'.eng[1].f = "cancel_callback"
              /\ BytesOf(last'.eng[1].n, 8) = last'.args[1].a
              /\ last'.ret \in {NanTrue, NanFalse}
              /\ last'.ret = NanTrue
                   <=> \E k \in 1..MaxTrans :
                         /\ trans[k].st = "pending" /\ ~trans[k].cancelled
                         /\ IdBytes(k) = last'.args[1].a)]_vars
\* C14 witness: the buffer of the second transaction was given to cancel,
\* which returned true.
C14_Witness ==
  /\ last.op = "cancel" /\ last.ret = NanTrue
  /\ last.args = <<Buf(IdBytes(2))>> /\ trans[2].cancelled
  /\ trans[2].st = "pending"

\* C15: in every reachable state the reference count of the context equals
\* the number of live CallbackData records and is not negative, and no
\* CallbackData has been freed twice; a rejected issuing call frees its
\* CallbackData itself and leaves no transaction for the bridge, an accepted
\* one leaves exactly one new record and one more reference; the bridge
\* frees the record of the transaction it completes exactly once and
\* releases one reference after the callback, also when the callback raised
\* (as long as the process goes on), and touches no other record.
C15_RefsMatchPending ==
  /\ [](/\ refs = Cardinality(Pending) /\ refs >= 0
        /\ \A k \in 1..MaxTrans :
             /\ trans[k].frees = (IF trans[k].st = "done" THEN 1 ELSE 0)
             /\ trans[k].st # "free" <=> k <= issued)
  /\ [][/\ (last'.op \in IssueOps /\ last'.data = "freed")
             => (trans' = trans /\ refs' = refs /\ last'.unrefd = 1)
        /\ (last'.op \in IssueOps /\ last'.data = "kept")
             => (/\ refs' = refs + 1 /\ issued' = issued + 1
                 /\ \A k \in 1..MaxTrans : k # issued' => trans'[k] = trans[k])
        /\ (last'.op = "callback" /\ ~halted')
             => (/\ refs' = refs - 1 /\ last'.data = "freed"
                 /\ trans[Completing].st = "pending"
                 /\ trans'[Completing].st = "done"
                 /\ trans'[Completing].frees = 1
                 /\ \A k \in 1..MaxTrans :
                      k # Completing => trans'[k] = trans[k])]_vars
\* C15 witness: the callback raised in the bridge, the process went on, the
\* record was freed and another transaction is still pending.
C15_Witness ==
  /\ last.op = "callback" /\ last.exc = RaisedExc /\ ~halted
  /\ last.data = "freed" /\ Len(last.cbs) = 1
  /\ Pending # {} /\ refs = Cardinality(Pending)

\* C16: cancel only forwards the id.  A cancel step invokes no host
\* callback, frees no CallbackData and releases no reference: every
\* transaction keeps its state, callback, invocation and free counts and the
\* reference count is as before; a pending transaction, cancelled or not,
\* leaves the pending state only in a step of the completion bridge.
C16_CancelFrame ==
  [][/\ last'.op = "cancel"
          => (/\ last'.cbs = <<>> /\ last'.data = "none"
              /\ last'.refd = 0 /\ last'.unrefd = 0 /\ refs' = refs
              /\ UNCHANGED <<obj, context_, engine, issued, halted>>
              /\ \A k \in 1..MaxTrans :
                   trans'[k] = [trans[k] EXCEPT !.cancelled = trans'[k].cancelled])
     /\ \A k \in 1..MaxTrans :
          (trans[k].st = "pending" /\ trans'[k].st # "pending")
            => (last'.op = "callback" /\ refs' = refs - 1)]_vars
\* C16 witness: cancel was accepted by the engine for a pending transaction,
\* whose record and reference are still there.
C16_Witness ==
  /\ last.op = "cancel" /\ last.ret = NanTrue /\ Len(last.eng) = 1
  /\ \E k \in 1..MaxTrans :
       /\ trans[k].cancelled /\ trans[k].st = "pending"
       /\ trans[k].calls = 0 /\ trans[k].frees = 0
  /\ refs = Cardinality(Pending) /\ refs > 0

\* C17: every CallbackData made for a transaction the engine accepted is
\* eventually freed and its reference released (as long as the process
\* runs), also when the transaction was cancelled and when the context was
\* destroyed while it was outstanding; whenever no transaction is
\* outstanding the reference count is zero.
C17_EventuallyReleased ==
  /\ \A k \in 1..MaxTrans :
       (trans[k].st = "pending") ~> (trans[k].frees = 1 \/ halted)
  /\ \A k \in 1..MaxTrans :
       (trans[k].st = "pending" /\ (trans[k].cancelled \/ ~engine.alive))
         ~> ((trans[k].st = "done" /\ trans[k].frees = 1) \/ halted)
  /\ [](Pending = {} => refs = 0)
\* C17 witness: all transactions were issued; one was cancelled, the context
\* was destroyed, and every record has been freed with no reference left.
C17_Witness ==
  /\ issued = MaxTrans /\ Pending = {} /\ refs = 0 /\ ~engine.alive
  /\ ~halted
  /\ \A k \in 1..MaxTrans : trans[k].st = "done" /\ trans[k].frees = 1
  /\ \E k \in 1..MaxTrans : trans[k].cancelled

\* C18: completions may come in any order.  The record of a transaction
\* holds the callback its issuing call was given and keeps it; a completion
\* that invokes a callback invokes exactly the callback of the transaction
\* it completes, once, with the id of that transaction, and leaves the
\* records of all other transactions as they were.
C18_IndependentCompletions ==
  [][/\ (last'.op \in IssueOps /\ issued' = issued + 1)
          => trans'[issued'].cb = LastArg(last')
     /\ \A k \in 1..MaxTrans :
          trans[k].st # "free" => trans'[k].cb = trans[k].cb
     /\ (last'.op = "callback" /\ last'.cbs # <<>>)
          => (/\ Len(last'.cbs) = 1
              /\ last'.cbs[1].fn = trans[Completing].cb
              /\ trans[Completing].cb = Fn(Completing)
              /\ memcpy(last'.cbs[1].argv[3].bytes) = EngineId(Completing)
              /\ \A j \in 1..MaxTrans :
                   j # Completing => trans'[j] = trans[j])]_vars
\* C18 witness: the second transaction completed while the first, issued
\* before it, is still outstanding and untouched.
C18_Witness ==
  /\ last.op = "callback" /\ Len(last.cbs) = 1 /\ last.cbs[1].fn = Fn(2)
  /\ trans[2].st = "done" /\ trans[2].calls = 1
  /\ trans[1].st = "pending" /\ trans[1].calls = 0 /\ trans[1].cb = Fn(1)

\* the completion kind of the latest step of the bridge
KindOf(l) == l.args[1].n
\* C19: a completion of kind COMPLETE passes a null error and the converted
\* response, and releases the engine's response exactly once; a completion
\* of any other kind passes an error object with the message
\* 'Lookup failed.' and the kind as code, a null result, and releases
\* nothing; in every completion exactly one of error and result is not null.
C19_KindMapping ==
  last.op = "callback"
    => /\ KindOf(last) = GETDNS_CALLBACK_COMPLETE
            => /\ last.eng = <<ECall("dict_destroy", "response", 0, <<>>)>>
               /\ \A i \in 1..Len(last.cbs) :
                    /\ last.cbs[i].argv[1] = NanNull
                    /\ last.cbs[i].argv[2].k = "result"
       /\ KindOf(last) # GETDNS_CALLBACK_COMPLETE
            => /\ last.eng = <<>>
               /\ \A i \in 1..Len(last.cbs) :
                    /\ last.cbs[i].argv[1] =
                         HArg("error", "Lookup failed.", KindOf(last), <<>>)
                    /\ last.cbs[i].argv[2] = NanNull
       /\ \A i \in 1..Len(last.cbs) :
            (last.cbs[i].argv[1].k = "null") # (last.cbs[i].argv[2].k = "null")
\* C19 witness: a transaction completed with the timeout kind and its
\* callback got the error object with code 702.
C19_Witness ==
  /\ last.op = "callback" /\ KindOf(last) = GETDNS_CALLBACK_TIMEOUT
  /\ Len(last.cbs) = 1 /\ last.cbs[1].argv[1].k = "error"
  /\ last.cbs[1].argv[1].code = GETDNS_CALLBACK_TIMEOUT

\* C20: an option of a numeric table given the number v calls the setter of
\* its name with v modulo 2^32 cut to the width of the table (256 and 65536
\* divide 2^32, so that is v modulo 256 and v modulo 65536), whatever the
\* size or sign of v, and raises nothing; given a value that is no number it
\* calls no setter and raises nothing.
C20_Truncation ==
  (last.op = "set" /\ last.args[1].s \in NumericNames)
    => /\ last.exc = NoExc
       /\ IsNumber(last.args[2])
            => /\ Len(last.eng) = 1 /\ last.eng[1].f = last.args[1].s
               /\ last.eng[1].n =
                    (IF last.args[1].s \in Names(UINT8_OPTION_SETTERS)
                     THEN last.args[2].n % 256 ELSE last.args[2].n % 65536)
       /\ ~IsNumber(last.args[2]) => last.eng = <<>>
\* C20 witness: the 8-bit option edns_version was given -1 on an active
\* context and its setter was called with 255.
C20_Witness ==
  /\ last.op = "set" /\ last.active /\ last.args[1].s = "edns_version"
  /\ last.args[2] = Num(-1) /\ Len(last.eng) = 1 /\ last.eng[1].n = 255

\* the strings that are IPv4 or IPv6 literals
IpLiterals == {"1.2.3.4", "8.8.8.8", "::1"}
\* getHostname was called with a callback on an active context and its name
\* is no address literal
HostnameOfNoAddress(l) ==
  /\ l.op = "getHostname" /\ l.active /\ IsFunction(LastArg(l))
  /\ ToStr(ArgAt(l.args, 1)) \notin IpLiterals
\* C21: getHostname on an active context with a name that is neither an IPv4
\* nor an IPv6 literal makes no engine call, frees the CallbackData it made
\* and releases the reference it took, calls the host callback exactly once
\* inside the call with the error "Error issuing query" whose code is the
\* generic error, and returns no transaction id.
C21_HostnameNotAnAddress ==
  HostnameOfNoAddress(last)
    => /\ last.eng = <<>>
       /\ last.data = "freed" /\ last.refd = 1 /\ last.unrefd = 1
       /\ last.cbs = <<Invocation(LastArg(last),
                         <<HArg("error", "Error issuing query",
                                GETDNS_RETURN_GENERIC_ERROR, <<>>)>>)>>
       /\ last.ret = Undefined
\* C21 witness: getHostname("example.com", cb) was called on an active
\* context and cb was called once.
C21_Witness ==
  /\ HostnameOfNoAddress(last) /\ last.args[1] = Str("example.com")
  /\ Len(last.args) = 2 /\ Len(last.cbs) = 1 /\ last.exc = NoExc

\* the allocations and releases in mem of the structures held by the
\* variable of event e, in order
EventsOf(mem, e) ==
  LET Same(x) == x.what = e.what /\ x.i = e.i IN SelectSeq(mem, Same)
\* q allocates and releases in turn and ends with a release
Alternates(q) ==
  /\ Len(q) % 2 = 0
  /\ \A k \in 1..Len(q) : q[k].act = (IF k % 2 = 1 THEN "create" ELSE "destroy")
\* every structure allocated in mem is released exactly once, after its
\* allocation and before its variable holds the next one, and nothing else
\* is released
ReleasedOnce(mem) == \A j \in 1..Len(mem) : Alternates(EventsOf(mem, mem[j]))
\* C22: every engine structure an operation allocates itself (the upstream
\* list, the endpoint dictionary of each element, the endpoint dictionary of
\* a hostname lookup, the extension dictionary) has been released by it
\* exactly once when the operation returns, on every path.
C22_ReleasedOnce == ReleasedOnce(last.mem)

====
